---- MODULE Spec2Model ----
(***************************************************************************)
(* Model of the command registrar (app/bot/commands.py: setup, delete) and *)
(* of the text catalog (app/bot/utils/texts.py: Text, TextMessage).        *)
(*                                                                         *)
(* A command description written in Arabic in the source is represented by *)
(* "ar:" followed by its English counterpart; a template string of the     *)
(* catalog is represented by its language and its key.                     *)
(***************************************************************************)
EXTENDS Integers, Sequences, FiniteSets, TLC

VARIABLES registry, DEV_ID, op, pc, status, calls, raised, platform, last,
          cls, requested, language_code, key, result

vars == <<registry, DEV_ID, op, pc, status, calls, raised, platform, last,
          cls, requested, language_code, key, result>>

registrarVars == <<op, pc, status, calls, raised, platform, last>>

catalogVars == <<cls, requested, language_code, key, result>>

(***************************************************************************)
(* Bounds                                                                  *)
(***************************************************************************)
\* config.bot.DEV_ID ranges over 1..MaxDevId
MaxDevId == 2

(***************************************************************************)
(* texts.py: the supported-language registry                               *)
(***************************************************************************)
\* SUPPORTED_LANGUAGES = {"en": ..., "ar": ...}  (code -> display label)
SUPPORTED_LANGUAGES == [c \in {"en", "ar"} |-> IF c = "en" THEN "English" ELSE "Arabic"]

\* language codes a caller may pass; "fr" and "" are codes outside the registry
Codes == {"en", "ar", "fr", ""}

Label(c) == IF c = "en" THEN "English" ELSE IF c = "ar" THEN "Arabic" ELSE "Francais"

\* contents the registry may be edited to (texts.py:5-6): as shipped, with
\* the "ar" line removed, and with a line for "fr" added
Registries == {[c \in S |-> Label(c)] : S \in {{"en"}, {"en", "ar"}, {"en", "ar", "fr"}}}

(***************************************************************************)
(* commands.py: command tables built by setup                              *)
(***************************************************************************)
\* language_code argument left out of a call
None == "none"

\* chat_id of a scope that is not a single chat
NoChat == 0

BotCommand(command, description) == [command |-> command, description |-> description]

BotCommandScopeChat(chat_id) == [type |-> "chat", chat_id |-> chat_id]

BotCommandScopeAllPrivateChats == [type |-> "all_private_chats", chat_id |-> NoChat]

BotCommandScopeAllGroupChats == [type |-> "all_group_chats", chat_id |-> NoChat]

\* commands dict after the len(SUPPORTED_LANGUAGES) > 1 extension
commands(reg) ==
    [en |-> <<BotCommand("start", "Restart bot")>> \o
            (IF Cardinality(DOMAIN reg) > 1
             THEN <<BotCommand("language", "Change language")>> ELSE <<>>),
     ar |-> <<BotCommand("start", "ar:Restart bot")>> \o
            (IF Cardinality(DOMAIN reg) > 1
             THEN <<BotCommand("language", "ar:Change language")>> ELSE <<>>)]

group_commands ==
    [en |-> <<BotCommand("ban", "Block/Unblock a user"),
              BotCommand("silent", "Activate/Deactivate silent Mode"),
              BotCommand("information", "User information")>>,
     ar |-> <<BotCommand("ban", "ar:Block/Unblock a user"),
              BotCommand("silent", "ar:Activate/Deactivate silent Mode"),
              BotCommand("information", "ar:User information")>>]

admin_commands_prepend(reg) ==
    [en |-> <<BotCommand("newsletter", "Newsletter menu")>> \o commands(reg).en,
     ar |-> <<BotCommand("newsletter", "ar:Newsletter menu")>> \o commands(reg).ar]

admin_commands(reg) ==
    [en |-> commands(reg).en \o <<BotCommand("newsletter", "Newsletter menu")>>,
     ar |-> commands(reg).ar \o <<BotCommand("newsletter", "ar:Newsletter menu")>>]

\* one remote call site: the method, its arguments, and whether it sits
\* inside the try/except TelegramBadRequest block
CallSite(method, cmds, scope, lc, guarded) ==
    [method |-> method, commands |-> cmds, scope |-> scope,
     language_code |-> lc, guarded |-> guarded]

\* mutant: the Arabic admin call is missing
SetupCalls_skip(reg, dev) ==
    << CallSite("set_my_commands", admin_commands(reg).en, BotCommandScopeChat(dev), None, TRUE),
       CallSite("set_my_commands", commands(reg).en, BotCommandScopeAllPrivateChats, None, FALSE),
       CallSite("set_my_commands", commands(reg).ar, BotCommandScopeAllPrivateChats, "ar", FALSE),
       CallSite("set_my_commands", group_commands.en, BotCommandScopeAllGroupChats, None, FALSE),
       CallSite("set_my_commands", group_commands.ar, BotCommandScopeAllGroupChats, "ar", FALSE) >>

\* the six awaited calls of setup, in program order
SetupCalls(reg, dev) ==
    << CallSite("set_my_commands", admin_commands(reg).en, BotCommandScopeChat(dev), None, TRUE),
       CallSite("set_my_commands", admin_commands(reg).ar, BotCommandScopeChat(dev), "ar", TRUE),
       CallSite("set_my_commands", commands(reg).en, BotCommandScopeAllPrivateChats, None, FALSE),
       CallSite("set_my_commands", commands(reg).ar, BotCommandScopeAllPrivateChats, "ar", FALSE),
       CallSite("set_my_commands", group_commands.en, BotCommandScopeAllGroupChats, None, FALSE),
       CallSite("set_my_commands", group_commands.ar, BotCommandScopeAllGroupChats, "ar", FALSE) >>

\* mutant: the group-chat calls are issued before the private-chat calls
DeleteCalls_reordered(dev) ==
    << CallSite("delete_my_commands", <<>>, BotCommandScopeChat(dev), None, TRUE),
       CallSite("delete_my_commands", <<>>, BotCommandScopeChat(dev), "ar", TRUE),
       CallSite("delete_my_commands", <<>>, BotCommandScopeAllGroupChats, None, FALSE),
       CallSite("delete_my_commands", <<>>, BotCommandScopeAllGroupChats, "ar", FALSE),
       CallSite("delete_my_commands", <<>>, BotCommandScopeAllPrivateChats, None, FALSE),
       CallSite("delete_my_commands", <<>>, BotCommandScopeAllPrivateChats, "ar", FALSE) >>

\* mutant: the Arabic group-chat slot is never cleared (the default slot is
\* cleared twice)
DeleteCalls_missing(dev) ==
    << CallSite("delete_my_commands", <<>>, BotCommandScopeChat(dev), None, TRUE),
       CallSite("delete_my_commands", <<>>, BotCommandScopeChat(dev), "ar", TRUE),
       CallSite("delete_my_commands", <<>>, BotCommandScopeAllPrivateChats, None, FALSE),
       CallSite("delete_my_commands", <<>>, BotCommandScopeAllPrivateChats, "ar", FALSE),
       CallSite("delete_my_commands", <<>>, BotCommandScopeAllGroupChats, None, FALSE),
       CallSite("delete_my_commands", <<>>, BotCommandScopeAllGroupChats, None, FALSE) >>

\* the six awaited calls of delete, in program order
DeleteCalls(dev) ==
    << CallSite("delete_my_commands", <<>>, BotCommandScopeChat(dev), None, TRUE),
       CallSite("delete_my_commands", <<>>, BotCommandScopeChat(dev), "ar", TRUE),
       CallSite("delete_my_commands", <<>>, BotCommandScopeAllPrivateChats, None, FALSE),
       CallSite("delete_my_commands", <<>>, BotCommandScopeAllPrivateChats, "ar", FALSE),
       CallSite("delete_my_commands", <<>>, BotCommandScopeAllGroupChats, None, FALSE),
       CallSite("delete_my_commands", <<>>, BotCommandScopeAllGroupChats, "ar", FALSE) >>

(***************************************************************************)
(* Errors                                                                  *)
(***************************************************************************)
NoError == [type |-> "none", text |-> "", dev_id |-> 0]

TelegramBadRequest == [type |-> "TelegramBadRequest", text |-> "", dev_id |-> 0]

\* any other failure of the awaited call (network, server, flood control)
TelegramOtherError == [type |-> "TelegramOtherError", text |-> "", dev_id |-> 0]

\* ValueError(f"Chat with DEV_ID {config.bot.DEV_ID} not found.")
ValueError(dev) == [type |-> "ValueError", text |-> "Chat with DEV_ID {} not found.", dev_id |-> dev]

\* what the platform answers to one call
Responses == {"ok", "bad_request", "other_error"}

\* mutant: a bad request inside the try block is re-raised untranslated
Propagate_untranslated(site, resp, dev) ==
    IF resp = "bad_request" THEN TelegramBadRequest
    ELSE IF resp = "other_error" THEN TelegramOtherError
    ELSE NoError

\* the exception leaving setup/delete when the call at `site` got `resp`
Propagate(site, resp, dev) ==
    IF resp = "bad_request"
    THEN (IF site.guarded THEN ValueError(dev) ELSE TelegramBadRequest)
    ELSE IF resp = "other_error" THEN TelegramOtherError
    ELSE NoError

(***************************************************************************)
(* The platform's command slots (what the successful calls leave behind)   *)
(***************************************************************************)
Slot(scope, lc) == [scope |-> scope, language_code |-> lc]

Slots(dev) ==
    {Slot(s, lc) : s \in {BotCommandScopeChat(dev), BotCommandScopeAllPrivateChats,
                          BotCommandScopeAllGroupChats},
                   lc \in {None, "ar"}}

\* effect of one call that reached the platform
Apply(pf, site) ==
    [pf EXCEPT ![Slot(site.scope, site.language_code)] =
        IF site.method = "set_my_commands" THEN site.commands ELSE <<>>]

(***************************************************************************)
(* texts.py: Text and TextMessage                                          *)
(***************************************************************************)
\* a template string of the catalog, identified by its language and name
Template(lang, name) == [lang |-> lang, name |-> name]

\* keys of TextMessage.data["en"]
EnKeys ==
    {"select_language", "change_language", "main_menu", "message_sent",
     "message_edited", "user_started_bot", "user_restarted_bot",
     "user_stopped_bot", "user_blocked", "user_unblocked", "blocked_by_user",
     "user_information", "message_not_sent", "message_sent_to_user",
     "silent_mode_enabled", "silent_mode_disabled"}

\* keys of TextMessage.data["ar"]
ArKeys ==
    {"select_language", "change_language", "main_menu", "message_sent",
     "message_edited", "user_started_bot", "user_restarted_bot",
     "user_stopped_bot", "user_blocked", "user_unblocked", "blocked_by_user",
     "user_information", "message_not_sent", "message_sent_to_user",
     "silent_mode_enabled", "silent_mode_disabled"}

\* mutant: one translation is missing from the Arabic mapping
TextMessageData_untranslated ==
    [en |-> [k \in EnKeys |-> Template("en", k)],
     ar |-> [k \in ArKeys \ {"message_sent_to_user"} |-> Template("ar", k)]]

TextMessageData ==
    [en |-> [k \in EnKeys |-> Template("en", k)],
     ar |-> [k \in ArKeys |-> Template("ar", k)]]

\* the subclasses of Text: the repository's TextMessage, and two other
\* implementations of the abstract data property, one with a key that only
\* English has and one with no Arabic mapping at all
Classes == {"TextMessage", "PartialText", "EnglishOnlyText"}

PartialTextData ==
    [en |-> [k \in {"title", "body"} |-> Template("en", k)],
     ar |-> [k \in {"title"} |-> Template("ar", k)]]

EnglishOnlyTextData ==
    [en |-> [k \in {"title"} |-> Template("en", k)]]

\* the data property of an instance of class c
data(c) ==
    IF c = "TextMessage" THEN TextMessageData
    ELSE IF c = "PartialText" THEN PartialTextData
    ELSE EnglishOnlyTextData

\* keys a caller may ask for
GetKeys == EnKeys \cup ArKeys \cup {"title", "body", "no_such_key"}

\* mutant: the requested code is stored without the membership test
Resolve_unchecked(code, reg) == code

\* Text.__init__: the language code the instance keeps
Resolve(code, reg) == IF code \in DOMAIN reg THEN code ELSE "en"

KeyError == [kind |-> "KeyError", value |-> Template("", "")]

NoResult == [kind |-> "none", value |-> Template("", "")]

Str(t) == [kind |-> "str", value |-> t]

\* mutant: a key missing for the language is looked up in English
Lookup_fallback(d, lang, k) ==
    IF lang \in DOMAIN d /\ k \in DOMAIN d[lang] THEN Str(d[lang][k])
    ELSE IF k \in DOMAIN d["en"] THEN Str(d["en"][k])
    ELSE KeyError

\* Text.get: self.data[self.language_code][code]
Lookup(d, lang, k) ==
    IF lang \in DOMAIN d /\ k \in DOMAIN d[lang] THEN Str(d[lang][k])
    ELSE KeyError

(***************************************************************************)
(* State machine                                                           *)
(***************************************************************************)
NoRun == [op |-> "none", status |-> "idle", calls |-> <<>>, raised |-> NoError]

InitRegistrar ==
    /\ op = "none"
    /\ pc = 0
    /\ status = "idle"
    /\ calls = <<>>
    /\ raised = NoError
    /\ platform = [s \in Slots(DEV_ID) |-> <<>>]
    /\ last = NoRun

InitCatalog ==
    /\ cls = "none"
    /\ requested = ""
    /\ language_code = ""
    /\ key = ""
    /\ result = NoResult

Init ==
    /\ registry = SUPPORTED_LANGUAGES
    /\ DEV_ID \in 1..MaxDevId
    /\ InitRegistrar
    /\ InitCatalog

\* the registry edited to any non-empty content
InitRegistry ==
    /\ registry \in Registries
    /\ DEV_ID = 1
    /\ InitRegistrar
    /\ InitCatalog

\* a run starts when no run is in progress; the finished run is remembered
Begin(o) ==
    /\ status # "running"
    /\ last' = [op |-> op, status |-> status, calls |-> calls, raised |-> raised]
    /\ op' = o
    /\ pc' = 1
    /\ status' = "running"
    /\ calls' = <<>>
    /\ raised' = NoError
    /\ UNCHANGED <<platform, registry, DEV_ID, catalogVars>>

BeginSetup == Begin("setup")

BeginDelete == Begin("delete")

\* mutant: a bad request inside the try block is swallowed
Continue_swallow(site, resp) == resp = "ok" \/ (resp = "bad_request" /\ site.guarded)

\* whether control reaches the statement after the awaited call
Continue(site, resp) == resp = "ok"

\* one awaited call of the program prog at position pc
Await(prog, resp, applied) ==
    LET site == prog[pc] IN
    /\ calls' = Append(calls, [site |-> site, response |-> resp])
    /\ platform' = IF resp = "ok" \/ applied THEN Apply(platform, site) ELSE platform
    /\ raised' = Propagate(site, resp, DEV_ID)
    /\ IF Continue(site, resp)
       THEN /\ pc' = pc + 1
            /\ status' = IF pc = Len(prog) THEN "returned" ELSE "running"
       ELSE /\ pc' = pc
            /\ status' = "raised"
    /\ UNCHANGED <<op, last, registry, DEV_ID, catalogVars>>

\* an error other than a bad request may or may not have reached the platform
Outcomes == {<<r, a>> \in Responses \X BOOLEAN : a => r = "other_error"}

SetupCall ==
    /\ status = "running"
    /\ op = "setup"
    /\ \E o \in Outcomes : Await(SetupCalls(registry, DEV_ID), o[1], o[2])

DeleteCall ==
    /\ status = "running"
    /\ op = "delete"
    /\ \E o \in Outcomes : Await(DeleteCalls(DEV_ID), o[1], o[2])

Construct ==
    \E c \in Classes, code \in Codes :
        /\ cls' = c
        /\ requested' = code
        /\ language_code' = Resolve(code, registry)
        /\ key' = ""
        /\ result' = NoResult
        /\ UNCHANGED <<registry, DEV_ID, registrarVars>>

Get ==
    \E k \in GetKeys :
        /\ cls # "none"
        /\ key' = k
        /\ result' = Lookup(data(cls), language_code, k)
        /\ UNCHANGED <<cls, requested, language_code, registry, DEV_ID, registrarVars>>

Next == BeginSetup \/ BeginDelete \/ SetupCall \/ DeleteCall

NextCatalog == Construct \/ Get

\* the registrar with the registry as shipped
Spec == Init /\ [][Next]_vars

\* the text catalog with the registry as shipped
SpecCatalog == Init /\ [][NextCatalog]_vars

\* the registrar with the registry edited
SpecRegistry == InitRegistry /\ [][Next]_vars

(***************************************************************************)
(* Properties                                                              *)
(***************************************************************************)
\* the language a call is for: the call without language_code is the
\* English one (commands.py:63, 77, 88)
LangOf(c) == IF c.site.language_code = None THEN "en" ELSE c.site.language_code

ScopeTypes == {"chat", "all_private_chats", "all_group_chats"}

Issued == 1..Len(calls)

Finished == status \in {"returned", "raised"}

\* C1: a run of setup in which every call succeeded issued exactly
\* 3 x |L| set_my_commands calls: for each registry language exactly one
\* with the single-chat scope of DEV_ID, one with the all-private-chats
\* scope and one with the all-group-chats scope, and nothing else.
C1_SetupIssuesThreeCallsPerLanguage ==
    (op = "setup" /\ status = "returned") =>
        /\ Len(calls) = 3 * Cardinality(DOMAIN registry)
        /\ \A i \in Issued :
            /\ calls[i].site.method = "set_my_commands"
            /\ calls[i].response = "ok"
            /\ calls[i].site.scope.type \in ScopeTypes
            /\ calls[i].site.scope.chat_id =
                   (IF calls[i].site.scope.type = "chat" THEN DEV_ID ELSE NoChat)
        /\ \A l \in DOMAIN registry, t \in ScopeTypes :
            Cardinality({i \in Issued : calls[i].site.scope.type = t /\ LangOf(calls[i]) = l}) = 1

C1_Witness == op = "setup" /\ status = "returned" /\ Len(calls) = 6

\* C2: once an admin-scope call of setup got a bad request, setup has
\* raised the configuration error naming DEV_ID, that call is the last call
\* of the run, and the run holds no private-chat or group-chat call.
C2_AdminBadRequestAbortsSetup ==
    op = "setup" =>
        \A i \in Issued :
            (calls[i].site.scope.type = "chat" /\ calls[i].response = "bad_request") =>
                /\ status = "raised"
                /\ raised = ValueError(DEV_ID)
                /\ i = Len(calls)
                /\ \A j \in Issued : calls[j].site.scope.type = "chat"

C2_Witness ==
    /\ op = "setup"
    /\ status = "raised"
    /\ Len(calls) = 1
    /\ calls[1].response = "bad_request"
    /\ raised.type = "ValueError"
    /\ raised.dev_id = DEV_ID

Min(a, b) == IF a < b THEN a ELSE b

\* C3: a finished setup run and a finished delete run whose calls were
\* answered alike (as far as both went) issued calls for the same sequence
\* of (scope, language_code) pairs, stopped at the same point and ended the
\* same way (returned, or raised the same error); setup only sets and delete
\* only clears.
C3_DeleteMirrorsSetup ==
    (Finished /\ last.op \notin {"none", op}) =>
        /\ \A i \in Issued :
            calls[i].site.method =
                (IF op = "setup" THEN "set_my_commands" ELSE "delete_my_commands")
        /\ (\A i \in 1..Min(Len(calls), Len(last.calls)) :
                calls[i].response = last.calls[i].response) =>
            /\ Len(calls) = Len(last.calls)
            /\ \A i \in 1..Min(Len(calls), Len(last.calls)) :
                /\ calls[i].site.scope = last.calls[i].site.scope
                /\ calls[i].site.language_code = last.calls[i].site.language_code
            /\ status = last.status
            /\ raised = last.raised

C3_Witness ==
    /\ op = "delete"
    /\ last.op = "setup"
    /\ status = "raised"
    /\ Len(calls) = 2
    /\ Len(last.calls) = 2
    /\ calls[2].response = "bad_request"
    /\ last.calls[2].response = "bad_request"
    /\ raised = ValueError(DEV_ID)

\* C4: the language code an instance keeps is "en" when the requested code
\* is not in the registry, the requested code when it is, and so always a
\* member of the registry.
C4_ResolvedLanguageIsSupported ==
    cls # "none" =>
        /\ requested \notin DOMAIN registry => language_code = "en"
        /\ requested \in DOMAIN registry => language_code = requested
        /\ language_code \in DOMAIN registry

C4_Witness == cls # "none" /\ requested = "fr" /\ language_code = "en"

\* C5: get answers the string stored for the instance's own language and
\* the key when there is one, and a KeyError otherwise; a string it answers
\* is never the string of another language.
C5_GetHasNoFallback ==
    result.kind # "none" =>
        /\ IF language_code \in DOMAIN data(cls) /\ key \in DOMAIN data(cls)[language_code]
           THEN result = Str(data(cls)[language_code][key])
           ELSE result = KeyError
        /\ result.kind = "str" => result.value = Template(language_code, key)

C5_Witness ==
    /\ cls = "PartialText"
    /\ language_code = "ar"
    /\ key = "body"
    /\ key \in DOMAIN data(cls)["en"]
    /\ result = KeyError

\* the fixed order of the calls of a run
Order ==
    << <<"chat", "en">>, <<"chat", "ar">>,
       <<"all_private_chats", "en">>, <<"all_private_chats", "ar">>,
       <<"all_group_chats", "en">>, <<"all_group_chats", "ar">> >>

\* C6: in a complete setup run the admin list sent for a language is the
\* private-chat list sent for it followed by one more entry, the newsletter
\* command, and the group list sent for it has no entry of the private-chat
\* list.
C6_AdminListIsBasePlusNewsletter ==
    (op = "setup" /\ Len(calls) = 6) =>
        \A l \in DOMAIN registry :
            LET sent(t) == calls[CHOOSE i \in Issued :
                                  calls[i].site.scope.type = t /\ LangOf(calls[i]) = l].site.commands
                admin == sent("chat")
                base == sent("all_private_chats")
                group == sent("all_group_chats")
            IN /\ Len(admin) = Len(base) + 1
               /\ SubSeq(admin, 1, Len(base)) = base
               /\ admin[Len(admin)].command = "newsletter"
               /\ \A i \in 1..Len(base) : base[i].command # "newsletter"
               /\ \A i \in 1..Len(group), j \in 1..Len(base) : group[i] # base[j]

C6_Witness ==
    /\ op = "setup"
    /\ status = "returned"
    /\ Len(calls) = 6
    /\ Len(calls[2].site.commands) = 3
    /\ Len(calls[4].site.commands) = 2

\* C7: a key that TextMessage has for some registry language is answered
\* with a string, never a KeyError, whatever code the instance was
\* constructed with.
C7_TextMessageKeysInEveryLanguage ==
    (cls = "TextMessage" /\ result.kind # "none"
        /\ \E l \in DOMAIN registry : key \in DOMAIN TextMessageData[l]) =>
            result.kind = "str"

C7_Witness ==
    /\ cls = "TextMessage"
    /\ requested = "ar"
    /\ language_code = "ar"
    /\ key = "message_sent_to_user"
    /\ result.kind = "str"

\* C8: a run of setup or delete that returned issued calls for exactly the
\* language codes of the registry.
C8_CallsFollowRegistry ==
    (op # "none" /\ status = "returned") =>
        {LangOf(calls[i]) : i \in Issued} = DOMAIN registry

\* C9: the calls issued so far are a prefix of the fixed order; a call that
\* failed is the last call of the run, and the run has then ended with an
\* error.
C9_CallsArePrefixOfOrder ==
    /\ Len(calls) <= Len(Order)
    /\ \A i \in Issued :
        /\ <<calls[i].site.scope.type, LangOf(calls[i])>> = Order[i]
        /\ calls[i].response # "ok" =>
            /\ i = Len(calls)
            /\ status = "raised"
            /\ raised # NoError
    /\ status = "raised" => (Len(calls) >= 1 /\ calls[Len(calls)].response # "ok")
    /\ status = "returned" => Len(calls) = Len(Order)

C9_Witness ==
    /\ op = "delete"
    /\ status = "raised"
    /\ Len(calls) = 4
    /\ calls[4].response = "other_error"
    /\ raised = TelegramOtherError

AllCleared(pf) == \A s \in Slots(DEV_ID) : pf[s] = <<>>

\* C10: whenever a delete run has returned, every one of the six slots is
\* empty; and a call of a delete run that finds every slot empty leaves the
\* platform's command state as it was.
C10_DeleteClearsEverySlot ==
    [][ /\ (op' = "delete" /\ status' = "returned") => AllCleared(platform')
        /\ (op = "delete" /\ op' = "delete" /\ AllCleared(platform)) => platform' = platform ]_vars

C10_Witness ==
    /\ op = "delete"
    /\ status = "returned"
    /\ last.op = "setup"
    /\ last.status = "returned"
    /\ AllCleared(platform)

====
